---------------------------- MODULE Spec2Model ----------------------------
(***************************************************************************)
(* Shopify -> HubSpot synchronisation, SyncManager of                      *)
(* Dynamic_custom_attribute_code/05_dynamic_fileds/sync_manager.py.        *)
(*                                                                         *)
(* Six specifications share the module:                                    *)
(*   Spec         several SyncManager processes running sync_all against   *)
(*                one source store and one destination store;              *)
(*   SpecNested   get_nested_value applied to drawn (data, path) inputs;   *)
(*   SpecAllowed  the allowed_values step applied to drawn                 *)
(*                (properties, allowed_values) inputs;                     *)
(*   SpecPayload  steps 1 to 3 of send_to_hubspot applied to drawn         *)
(*                (config, record, metafields) inputs;                     *)
(*   SpecAttributes  sync_custom_attributes of Create_custom_attributes    *)
(*                with its create_or_update_hubspot_contact coroutine;     *)
(*   SpecOrders   repeated runs of sync_shopify_orders_to_hubspot of       *)
(*                create_order/02_field_missing_hubspot.py.                *)
(***************************************************************************)
EXTENDS Integers, Sequences, FiniteSets, TLC

VARIABLES
    shopify,            \* source store: records per object type, metafields per id
    hsProps,            \* destination: property names per HubSpot object
    hsRecords,          \* destination: set of records [id, obj, props]
    pc,                 \* per process: position in sync_all / send_to_hubspot
    oi,                 \* per process: index of the object type being synced
    ri,                 \* per process: index of the item being synced
    data,               \* per process: list returned by fetch_shopify_data
    properties,         \* per process: the dict built by send_to_hubspot
    current_properties, \* per process: list returned by get_hubspot_properties
    fi,                 \* per process: position in list(properties.keys())
    results,            \* per process: results of the search call
    calls,              \* per process: network calls issued for the current item
    outcomes,           \* per process: what was printed per item, in order
    exc,                \* per process: the exception that ended the process
    existed,            \* per process: item already reported created at its start
    matched,            \* per process: destination held a match at search time
    call,               \* pure specifications: the drawn arguments
    ret,                \* pure specifications: the value returned
    attr_pc,            \* sync_custom_attributes: position
    customers,          \* sync_custom_attributes: list returned by get_shopify_customers
    cust_i,             \* sync_custom_attributes: index of cust in customers
    hubspot_props,      \* sync_custom_attributes: the cached set of property names
    attr_metafields,    \* sync_custom_attributes: dict returned by get_customer_metafields
    key_i,              \* sync_custom_attributes: position in metafields.keys()
    upserts,            \* frames of create_or_update_hubspot_contact, in call order
    stale,              \* a property creation was issued after hubspot_props was fetched
    printed,            \* sync_custom_attributes: what was printed per customer
    order_pc,           \* sync_shopify_orders_to_hubspot: position
    order_run,          \* number of the run of sync_shopify_orders_to_hubspot
    orders,             \* sync_shopify_orders_to_hubspot: list returned by get_shopify_orders
    order_i             \* sync_shopify_orders_to_hubspot: index of order in orders

syncVars == <<shopify, hsProps, hsRecords, pc, oi, ri, data, properties,
              current_properties, fi, results, calls, outcomes, exc, existed, matched>>
managerVars == <<pc, oi, ri, data, properties, current_properties, fi, results,
                 calls, outcomes, exc, existed, matched>>
pureVars == <<call, ret>>
attrVars == <<attr_pc, customers, cust_i, hubspot_props, attr_metafields, key_i,
              upserts,
              stale, printed>>
orderVars == <<order_pc, order_run, orders, order_i>>
vars == <<shopify, hsProps, hsRecords, pc, oi, ri, data, properties,
          current_properties, fi, results, calls, outcomes, exc, existed, matched,
          call, ret, attrVars, orderVars>>

(***************************************************************************)
(* Bounds.                                                                 *)
(***************************************************************************)
NumProcs == 2
MaxPathLen == 4

Range(s) == {s[i] : i \in DOMAIN s}

(***************************************************************************)
(* Python values.  A JSON value is a tagged record; a str used as a path   *)
(* or as a key of a source record is the sequence of its characters, so    *)
(* that split(".") and int() are computed on it.                           *)
(***************************************************************************)
PyNone == [t |-> "none"]
Str(s) == [t |-> "str", s |-> s]
Int_(n) == [t |-> "int", n |-> n]
Bool(b) == [t |-> "bool", b |-> b]
List(items) == [t |-> "list", items |-> items]
Dict(m) == [t |-> "dict", m |-> m]

\* bool(v)
Truthy(v) ==
    CASE v.t = "none" -> FALSE
      [] v.t = "str" -> v.s # ""
      [] v.t = "int" -> v.n # 0
      [] v.t = "bool" -> v.b
      [] v.t = "list" -> v.items # <<>>
      [] v.t = "dict" -> DOMAIN v.m # {}

IsNumber(v) == v.t \in {"int", "bool"}
NumberOf(v) == IF v.t = "int" THEN v.n ELSE IF v.b THEN 1 ELSE 0

\* a == b (True == 1 and False == 0 in Python)
PyEq(a, b) == IF IsNumber(a) /\ IsNumber(b) THEN NumberOf(a) = NumberOf(b) ELSE a = b

\* v in lst
PyIn(v, lst) == \E i \in DOMAIN lst : PyEq(lst[i], v)

(***************************************************************************)
(* dict with str keys, insertion ordered: keys in order, val by key.       *)
(***************************************************************************)
EmptyDict == [keys |-> <<>>, val |-> <<>>]
DictHas(d, k) == k \in DOMAIN d.val
\* d.get(k)
DictGet(d, k) == IF k \in DOMAIN d.val THEN d.val[k] ELSE PyNone
\* d[k] = v
DictSet(d, k, v) ==
    [keys |-> IF k \in DOMAIN d.val THEN d.keys ELSE Append(d.keys, k),
     val |-> [x \in (DOMAIN d.val) \cup {k} |-> IF x = k THEN v ELSE d.val[x]]]
\* d.pop(k, None)
DictPop(d, k) ==
    [keys |-> SelectSeq(d.keys, LAMBDA x : x # k),
     val |-> [x \in (DOMAIN d.val) \ {k} |-> d.val[x]]]

(***************************************************************************)
(* str(path).split(".") and int(key)                                       *)
(***************************************************************************)
RECURSIVE Split(_)
Split(s) ==
    IF \E i \in 1..Len(s) : s[i] = "."
    THEN LET i == CHOOSE j \in 1..Len(s) :
                      s[j] = "." /\ \A k \in 1..(j - 1) : s[k] # "."
         IN  <<SubSeq(s, 1, i - 1)>> \o Split(SubSeq(s, i + 1, Len(s)))
    ELSE <<s>>

IsDigit(c) == c \in {"0", "1", "2", "3", "4", "5", "6", "7", "8", "9"}
DigitVal(c) ==
    CASE c = "0" -> 0 [] c = "1" -> 1 [] c = "2" -> 2 [] c = "3" -> 3
      [] c = "4" -> 4 [] c = "5" -> 5 [] c = "6" -> 6 [] c = "7" -> 7
      [] c = "8" -> 8 [] c = "9" -> 9

RECURSIVE StripLeft(_)
StripLeft(s) == IF s # <<>> /\ Head(s) = " " THEN StripLeft(Tail(s)) ELSE s
RECURSIVE StripRight(_)
StripRight(s) ==
    IF s # <<>> /\ s[Len(s)] = " " THEN StripRight(SubSeq(s, 1, Len(s) - 1)) ELSE s

\* digits, single underscores allowed between digits
IsDigits(s) ==
    /\ s # <<>>
    /\ IsDigit(s[1]) /\ IsDigit(s[Len(s)])
    /\ \A i \in 1..Len(s) : IsDigit(s[i]) \/ s[i] = "_"
    /\ \A i \in 1..(Len(s) - 1) : ~(s[i] = "_" /\ s[i + 1] = "_")

RECURSIVE DigitsValue(_)
DigitsValue(s) ==
    IF s = <<>> THEN 0
    ELSE LET rest == SubSeq(s, 1, Len(s) - 1)
         IN  IF s[Len(s)] = "_" THEN DigitsValue(rest)
             ELSE 10 * DigitsValue(rest) + DigitVal(s[Len(s)])

\* int(key): [ok |-> FALSE] stands for ValueError
PyInt(key) ==
    LET s == StripRight(StripLeft(key))
        signed == s # <<>> /\ s[1] \in {"-", "+"}
        body == IF signed THEN Tail(s) ELSE s
    IN  IF IsDigits(body)
        THEN [ok |-> TRUE,
              n |-> IF signed /\ s[1] = "-" THEN 0 - DigitsValue(body)
                    ELSE DigitsValue(body)]
        ELSE [ok |-> FALSE, n |-> 0]

\* lst[i] inside try/except: [ok |-> FALSE] stands for IndexError
PyIndex(items, i) ==
    IF i >= 0 /\ i < Len(items) THEN [ok |-> TRUE, v |-> items[i + 1]]
    ELSE IF i < 0 /\ 0 - i <= Len(items) THEN [ok |-> TRUE, v |-> items[Len(items) + i + 1]]
    ELSE [ok |-> FALSE, v |-> PyNone]

(***************************************************************************)
(* get_nested_value                                                        *)
(***************************************************************************)
RECURSIVE WalkKeys(_, _)
WalkKeys(d, keys) ==
    IF keys = <<>> THEN d
    ELSE LET key == Head(keys)
         IN  IF d.t = "list"
             THEN LET i == PyInt(key)
                      e == PyIndex(d.items, i.n)
                  IN  IF i.ok /\ e.ok THEN WalkKeys(e.v, Tail(keys)) ELSE PyNone
             ELSE IF d.t = "dict"
             THEN WalkKeys(IF key \in DOMAIN d.m THEN d.m[key] ELSE PyNone, Tail(keys))
             ELSE PyNone

get_nested_value(d, path) == WalkKeys(d, Split(path))

(***************************************************************************)
(* Step 3 of send_to_hubspot: allowed_values.  A rule is                   *)
(* [allowed |-> rules.get("allowed", []), default |-> rules.get("default", *)
(* None)]; allowed_cfg maps field names to rules.                          *)
(***************************************************************************)
\* the step as it would be testing the value where line 109 tests the default
ApplyRuleOnValue(props, field, rules) ==
    IF DictHas(props, field) /\ DictGet(props, field) # PyNone
    THEN LET value == DictGet(props, field)
         IN  IF rules.allowed # <<>> /\ ~PyIn(value, rules.allowed)
             THEN IF Truthy(value)
                  THEN DictSet(props, field, rules.default)
                  ELSE DictPop(props, field)
             ELSE props
    ELSE props

\* the step as it would be giving a governed field that is missing its default
ApplyRuleDefaulting(props, field, rules) ==
    IF DictHas(props, field) /\ DictGet(props, field) # PyNone
    THEN LET value == DictGet(props, field)
         IN  IF rules.allowed # <<>> /\ ~PyIn(value, rules.allowed)
             THEN IF Truthy(rules.default)
                  THEN DictSet(props, field, rules.default)
                  ELSE DictPop(props, field)
             ELSE props
    ELSE IF Truthy(rules.default) THEN DictSet(props, field, rules.default)
    ELSE props

ApplyRule(props, field, rules) ==
    IF DictHas(props, field) /\ DictGet(props, field) # PyNone
    THEN LET value == DictGet(props, field)
             allowed == rules.allowed
             default == rules.default
         IN  IF allowed # <<>> /\ ~PyIn(value, allowed)
             THEN IF Truthy(default)
                  THEN DictSet(props, field, default)
                  ELSE DictPop(props, field)
             ELSE props
    ELSE props

RECURSIVE ApplyRules(_, _, _)
ApplyRules(props, allowed_cfg, fields) ==
    IF fields = {} THEN props
    ELSE LET f == CHOOSE x \in fields : TRUE
         IN  ApplyRules(ApplyRule(props, f, allowed_cfg[f]), allowed_cfg, fields \ {f})

apply_allowed_values(props, allowed_cfg) ==
    ApplyRules(props, allowed_cfg, DOMAIN allowed_cfg)

(***************************************************************************)
(* Configuration and source content.  config.json is read by __init__; the *)
(* one modelled declares two object types.  The keys of a source record    *)
(* and the paths of field_mapping are character sequences.                 *)
(***************************************************************************)
K_email == <<"e", "m", "a", "i", "l">>
K_id == <<"i", "d">>
K_name == <<"n", "a", "m", "e">>

Procs == 1..NumProcs

\* self.config.keys(), in file order
ObjectTypes == <<"customer", "order">>

Config ==
    [customer |->
        [shopify_key |-> "customers", hubspot_object |-> "contact",
         unique_field |-> "email", property_group |-> "contactinformation",
         field_mapping |-> << <<K_email, "email">> >>,
         allowed_values |->
            ("vip" :> [allowed |-> <<Str("true"), Str("false")>>,
                       default |-> Str("false")])],
     order |->
        [shopify_key |-> "orders", hubspot_object |-> "deal",
         unique_field |-> "dealname", property_group |-> "dealinformation",
         field_mapping |-> << <<K_name, "dealname">> >>,
         allowed_values |->
            ("dealname" :> [allowed |-> <<Str("#1001")>>, default |-> PyNone])]]

HubspotObjects == {"contact", "deal"}

\* unique-valued properties the destination itself enforces (contact email)
DestinationUnique == {<<"contact", "email">>}

Customer1 == Dict(K_id :> Int_(1) @@ K_email :> Str("a@x.com"))
Customer2 == Dict(K_id :> Int_(2) @@ K_email :> Str(""))
Order1 == Dict(K_id :> Int_(3) @@ K_name :> Str("#1001"))

MetaVip == ("key" :> "vip" @@ "value" :> Str("true"))
MetaVipMaybe == ("key" :> "vip" @@ "value" :> Str("maybe"))
MetaNoKey == ("value" :> Str("x"))

\* the source store, with the metafields of customer 2 as given
Source(m2) ==
    [records |-> [customer |-> <<Customer1, Customer2>>, order |-> <<Order1>>],
     metafields |-> <<  <<MetaVip>>, m2, <<>>  >>]

SourceScenarios == {Source(<<MetaVipMaybe>>), Source(<<MetaNoKey>>)}

\* the verb of the request each source call sends (httpx.get, lines 43 and 52)
fetch_shopify_data_verb == "GET"
\* fetch_metafields as it would be sending a write to the metafields endpoint
fetch_metafields_verb_put == "PUT"
fetch_metafields_verb == "GET"

\* the source store after a request: a read leaves it as it was, any other
\* verb rewrites the metafields the request addresses
StoreAfter(verb, store) ==
    IF verb = "GET" THEN store
    ELSE [store EXCEPT !.metafields = [i \in DOMAIN @ |-> <<>>]]

(***************************************************************************)
(* Responses of the two HTTP collaborators.                                *)
(***************************************************************************)
Resp(s) == [exc |-> FALSE, status |-> s]
Raised == [exc |-> TRUE, status |-> 0]
Entry(c, a, r) == [call |-> c, arg |-> a, status |-> r.status, exc |-> r.exc]
\* what a destination call can come to besides its regular answer: an
\* authentication failure, a server error, an exception raised by httpx
AuthStatuses == {401, 403}
DestinationFailures == {Resp(401), Resp(500), Raised}
NoExc == [type |-> "none", in |-> "none"]
ExcIn(type, fn) == [type |-> type, in |-> fn]

ObjType(w) == ObjectTypes[oi[w]]
Cfg(w) == Config[ObjType(w)]
Item(w) == data[w][ri[w]]
HsObj(w) == Cfg(w).hubspot_object

(***************************************************************************)
(* send_to_hubspot, steps 1 and 2                                          *)
(***************************************************************************)
RECURSIVE MapFields(_, _, _)
MapFields(props, mapping, item) ==
    IF mapping = <<>> THEN props
    ELSE MapFields(DictSet(props, Head(mapping)[2],
                           get_nested_value(item, Head(mapping)[1])),
                   Tail(mapping), item)

\* step 2 as it would be storing every metafield under one fixed name
AddMetafieldsRenamed(props, metas) ==
    [ok |-> TRUE,
     props |-> IF metas = <<>> THEN props
               ELSE DictSet(props, "metafield",
                            IF "value" \in DOMAIN metas[Len(metas)]
                            THEN metas[Len(metas)]["value"] ELSE PyNone)]

\* properties[meta["key"]] = meta.get("value"); ok is FALSE on KeyError
RECURSIVE AddMetafields(_, _)
AddMetafields(props, metas) ==
    IF metas = <<>> THEN [ok |-> TRUE, props |-> props]
    ELSE LET meta == Head(metas)
         IN  IF "key" \notin DOMAIN meta THEN [ok |-> FALSE, props |-> props]
             ELSE AddMetafields(
                      DictSet(props, meta["key"],
                              IF "value" \in DOMAIN meta THEN meta["value"] ELSE PyNone),
                      Tail(metas))

\* steps 1 and 2 alone: the map as it is before the allowed_values step
resolve_properties(cfg, item, metafields) ==
    AddMetafields(MapFields(EmptyDict, cfg.field_mapping, item), metafields)

\* send_to_hubspot as it would be running the property loop and the upsert on
\* the map of steps 1 and 2, the allowed_values step left out
build_properties_unnormalized(cfg, item, metafields) ==
    resolve_properties(cfg, item, metafields)

\* steps 1 to 3: the map the property loop and the upsert work on; ok is
\* FALSE when step 2 raised KeyError, props is then the map built so far
build_properties(cfg, item, metafields) ==
    LET added == resolve_properties(cfg, item, metafields)
    IN  IF added.ok
        THEN [ok |-> TRUE, props |-> apply_allowed_values(added.props, cfg.allowed_values)]
        ELSE added

\* the property loop as it would be without its membership test (line 119)
MissingUntested(keys, cur, from) == from..Len(keys)

\* indexes of list(properties.keys()), from position from, not in cur
Missing(keys, cur, from) == {j \in from..Len(keys) : keys[j] \notin cur}
FirstMissing(keys, cur, from) ==
    CHOOSE j \in Missing(keys, cur, from) : \A k \in Missing(keys, cur, from) : j <= k

\* step 5 as it would be testing that the key is there, not its value
UniqueAbsent(props, unique_field) == ~DictHas(props, unique_field)

\* step 5: not properties.get(unique_field)
UniqueMissing(props, unique_field) == ~Truthy(DictGet(props, unique_field))

\* shopify_obj.get("id")
ItemId(item) == item.m[K_id].n

\* the line printed for the item
Report(w, msg) ==
    Append(outcomes[w], [obj |-> ObjType(w), id |-> ItemId(Item(w)), msg |-> msg])

(***************************************************************************)
(* The destination (HubSpot CRM).                                          *)
(***************************************************************************)
\* records of obj whose property field equals value, in destination order
Matches(obj, field, value) ==
    {r \in hsRecords : r.obj = obj /\ field \in DOMAIN r.props /\ r.props[field] = value}

FirstMatch(obj, field, value) ==
    CHOOSE r \in Matches(obj, field, value) :
        \A q \in Matches(obj, field, value) : r.id <= q.id

\* a create is refused with 409 when a destination-unique property collides
Conflicts(obj, props) ==
    \E f \in DOMAIN props.val :
        /\ <<obj, f>> \in DestinationUnique
        /\ Matches(obj, f, props.val[f]) # {}

\* a patch is refused with 409 when it would give the record a destination-
\* unique value that another record holds
ConflictsWithOther(obj, props, old) ==
    \E f \in DOMAIN props.val :
        /\ <<obj, f>> \in DestinationUnique
        /\ Matches(obj, f, props.val[f]) \ {old} # {}

\* every property of the payload exists on the destination object
Storable(obj, props) == DOMAIN props.val \subseteq hsProps[obj]

Merged(old, props) ==
    [x \in (DOMAIN old) \cup (DOMAIN props.val) |->
        IF x \in DOMAIN props.val THEN props.val[x] ELSE old[x]]

(***************************************************************************)
(* sync_all and send_to_hubspot                                            *)
(***************************************************************************)
\* an uncaught exception leaves sync_all: the process ends
Raise(w, type, fn) ==
    /\ pc' = [pc EXCEPT ![w] = "raised"]
    /\ exc' = [exc EXCEPT ![w] = ExcIn(type, fn)]

\* sync_all, line 159: data = self.fetch_shopify_data(object_type)
FetchShopifyData(w) ==
    /\ pc[w] = "fetch"
    /\ \E r \in {Resp(200), Resp(500), Raised} :
          IF r.exc \/ r.status >= 400
          THEN /\ Raise(w, IF r.exc THEN "TransportError" ELSE "HTTPStatusError",
                        "fetch_shopify_data")
               /\ UNCHANGED <<data, ri, oi>>
          ELSE LET d == shopify.records[ObjType(w)]
               IN  /\ data' = [data EXCEPT ![w] = d]
                   /\ ri' = [ri EXCEPT ![w] = 1]
                   /\ IF d # <<>>
                      THEN pc' = [pc EXCEPT ![w] = "send"] /\ oi' = oi
                      ELSE IF oi[w] < Len(ObjectTypes)
                      THEN pc' = pc /\ oi' = [oi EXCEPT ![w] = oi[w] + 1]
                      ELSE pc' = [pc EXCEPT ![w] = "done"] /\ oi' = oi
                   /\ exc' = exc
    /\ shopify' = StoreAfter(fetch_shopify_data_verb, shopify)
    /\ UNCHANGED <<hsProps, hsRecords, properties, current_properties, fi,
                   results, calls, outcomes, existed, matched, call, ret, attrVars, orderVars>>

\* send_to_hubspot, steps 1 to 3 (lines 84-114)
MapAndFetchMetafields(w) ==
    /\ pc[w] = "send"
    /\ \E r \in {Resp(200), Resp(404), Raised} :
          LET item == Item(w)
              mapped == MapFields(EmptyDict, Cfg(w).field_mapping, item)
              metafields == IF r.status = 200 THEN shopify.metafields[ItemId(item)]
                            ELSE <<>>
              added == build_properties(Cfg(w), item, metafields)
              built == IF r.exc THEN mapped ELSE added.props
          IN  /\ calls' = [calls EXCEPT ![w] = <<Entry("fetch_metafields", "", r)>>]
              /\ properties' = [properties EXCEPT ![w] = built]
              /\ existed' = [existed EXCEPT ![w] =
                    /\ \E v \in Procs : \E i \in DOMAIN outcomes[v] :
                          outcomes[v][i] = [obj |-> ObjType(w), id |-> ItemId(item),
                                            msg |-> "created"]
                    /\ \E q \in hsRecords : q.obj = HsObj(w) /\ q.props = built.val]
              /\ matched' = [matched EXCEPT ![w] = FALSE]
              /\ results' = [results EXCEPT ![w] = <<>>]
              /\ IF r.exc
                 THEN Raise(w, "TransportError", "send_to_hubspot")
                 ELSE IF ~added.ok
                 THEN Raise(w, "KeyError", "send_to_hubspot")
                 ELSE /\ pc' = [pc EXCEPT ![w] = "get_props"]
                      /\ exc' = exc
    /\ shopify' = StoreAfter(fetch_metafields_verb, shopify)
    /\ UNCHANGED <<hsProps, hsRecords, oi, ri, data, current_properties, fi,
                   outcomes, call, ret, attrVars, orderVars>>

\* end of the step-4 loop, then step 5 (lines 124-126)
AfterEnsure(w, cur, from) ==
    LET keys == properties[w].keys
    IN  IF Missing(keys, cur, from) # {}
        THEN /\ pc' = [pc EXCEPT ![w] = "ensure"]
             /\ fi' = [fi EXCEPT ![w] = FirstMissing(keys, cur, from)]
             /\ outcomes' = outcomes
        ELSE /\ fi' = [fi EXCEPT ![w] = Len(keys) + 1]
             /\ IF UniqueMissing(properties[w], Cfg(w).unique_field)
                THEN /\ pc' = [pc EXCEPT ![w] = "returned"]
                     /\ outcomes' = [outcomes EXCEPT ![w] = Report(w, "skipped")]
                ELSE /\ pc' = [pc EXCEPT ![w] = "search"]
                     /\ outcomes' = outcomes

\* get_hubspot_properties raises on an error status (raise_for_status)
list_properties_raises(r) == r.exc \/ r.status >= 400

\* send_to_hubspot, line 117: current_properties = self.get_hubspot_properties(..)
GetHubspotProperties(w) ==
    /\ pc[w] = "get_props"
    /\ \E r \in {Resp(200)} \cup DestinationFailures :
          /\ calls' = [calls EXCEPT ![w] = Append(@, Entry("get_hubspot_properties", "", r))]
          /\ IF list_properties_raises(r)
             THEN /\ Raise(w, IF r.exc THEN "TransportError" ELSE "HTTPStatusError",
                           "send_to_hubspot")
                  /\ UNCHANGED <<current_properties, fi, outcomes>>
             ELSE /\ current_properties' = [current_properties EXCEPT ![w] = hsProps[HsObj(w)]]
                  /\ AfterEnsure(w, hsProps[HsObj(w)], 1)
                  /\ exc' = exc
    /\ UNCHANGED <<shopify, hsProps, hsRecords, oi, ri, data, properties, results,
                   existed, matched, call, ret, attrVars, orderVars>>

\* create_hubspot_property as it would be with raise_for_status on its response
create_property_raises_for_status(r) == r.exc \/ r.status >= 400

\* create_hubspot_property raises only when httpx.post itself raises
create_property_raises(r) == r.exc

\* send_to_hubspot, lines 118-121: one create_hubspot_property call
CreateHubspotProperty(w) ==
    /\ pc[w] = "ensure"
    /\ LET field == properties[w].keys[fi[w]]
           there == field \in hsProps[HsObj(w)]
       IN  \E r \in {Resp(IF there THEN 409 ELSE 201)} \cup DestinationFailures :
              /\ calls' = [calls EXCEPT ![w] = Append(@, Entry("create_property", field, r))]
              /\ hsProps' = IF ~r.exc /\ r.status = 201
                            THEN [hsProps EXCEPT ![HsObj(w)] = @ \cup {field}]
                            ELSE hsProps
              /\ IF create_property_raises(r)
                 THEN /\ Raise(w, "TransportError", "send_to_hubspot")
                      /\ UNCHANGED <<fi, outcomes>>
                 ELSE /\ AfterEnsure(w, current_properties[w], fi[w] + 1)
                      /\ exc' = exc
    /\ UNCHANGED <<shopify, hsRecords, oi, ri, data, properties, current_properties,
                   results, existed, matched, call, ret, attrVars, orderVars>>

\* the search filter's value (line 136): properties[unique_field]
search_value(props, unique_field) == props.val[unique_field]

\* the branch as it would be posting whatever the search returned
after_search_posting(found) == "create"

\* line 145, if results: the patch branch, else the post branch
after_search(found) == IF found # <<>> THEN "update" ELSE "create"

\* send_to_hubspot, lines 141-142: the search call
Search(w) ==
    /\ pc[w] = "search"
    /\ LET field == Cfg(w).unique_field
           value == search_value(properties[w], field)
           found == Matches(HsObj(w), field, value)
       IN  \E r \in {Resp(200)} \cup DestinationFailures :
              /\ calls' = [calls EXCEPT ![w] = Append(@, Entry("search", value.s, r))]
              /\ matched' = [matched EXCEPT ![w] = found # {}]
              /\ IF r.exc
                 THEN /\ Raise(w, "TransportError", "send_to_hubspot")
                      /\ results' = results
                 ELSE /\ results' = [results EXCEPT ![w] =
                            IF r.status = 200 /\ found # {}
                            THEN <<FirstMatch(HsObj(w), field, value).id>>
                            ELSE <<>>]
                      /\ pc' = [pc EXCEPT ![w] = after_search(results'[w])]
                      /\ exc' = exc
    /\ UNCHANGED <<shopify, hsProps, hsRecords, oi, ri, data, properties,
                   current_properties, fi, outcomes, existed, call, ret, attrVars, orderVars>>

\* what send_to_hubspot prints after the patch call (lines 147-148)
update_message(status) == "updated"

\* send_to_hubspot, lines 145-148: httpx.patch on results[0]["id"]
Update(w) ==
    /\ pc[w] = "update"
    /\ LET obj_id == results[w][1]
           old == CHOOSE q \in hsRecords : q.id = obj_id
           good == IF ~Storable(HsObj(w), properties[w]) THEN 400
                   ELSE IF ConflictsWithOther(HsObj(w), properties[w], old) THEN 409
                   ELSE 200
       IN  \E r \in {Resp(good)} \cup DestinationFailures :
              /\ calls' = [calls EXCEPT ![w] = Append(@, Entry("update", "", r))]
              /\ hsRecords' = IF ~r.exc /\ r.status = 200
                              THEN (hsRecords \ {old}) \cup
                                   {[old EXCEPT !.props = Merged(old.props, properties[w])]}
                              ELSE hsRecords
              /\ IF r.exc
                 THEN /\ Raise(w, "TransportError", "send_to_hubspot")
                      /\ outcomes' = outcomes
                 ELSE /\ outcomes' = [outcomes EXCEPT ![w] =
                                         Report(w, update_message(r.status))]
                      /\ pc' = [pc EXCEPT ![w] = "returned"]
                      /\ exc' = exc
    /\ UNCHANGED <<shopify, hsProps, oi, ri, data, properties, current_properties, fi,
                   results, existed, matched, call, ret, attrVars, orderVars>>

\* what send_to_hubspot prints after the post call (lines 151-154)
create_message(status) == IF status = 201 THEN "created" ELSE "failed"

\* the post branch as it would be posting again after a server error
after_create_retrying(status) == IF status >= 500 THEN "create" ELSE "returned"

\* lines 151-154: whatever the status, a line is printed and the call returns
after_create(status) == "returned"

\* send_to_hubspot, lines 149-154: httpx.post of a new record
Create(w) ==
    /\ pc[w] = "create"
    /\ LET good == IF ~Storable(HsObj(w), properties[w]) THEN 400
                   ELSE IF Conflicts(HsObj(w), properties[w]) THEN 409
                   ELSE 201
           new == [id |-> Cardinality(hsRecords) + 1, obj |-> HsObj(w),
                   props |-> properties[w].val]
       IN  \E r \in {Resp(good)} \cup DestinationFailures :
              /\ calls' = [calls EXCEPT ![w] = Append(@, Entry("create", "", r))]
              /\ hsRecords' = IF ~r.exc /\ r.status = 201
                              THEN hsRecords \cup {new}
                              ELSE hsRecords
              /\ IF r.exc
                 THEN /\ Raise(w, "TransportError", "send_to_hubspot")
                      /\ outcomes' = outcomes
                 ELSE /\ outcomes' = [outcomes EXCEPT ![w] =
                                         Report(w, create_message(r.status))]
                      /\ pc' = [pc EXCEPT ![w] = after_create(r.status)]
                      /\ exc' = exc
    /\ UNCHANGED <<shopify, hsProps, oi, ri, data, properties, current_properties, fi,
                   results, existed, matched, call, ret, attrVars, orderVars>>

\* sync_all, lines 158-162: the two for loops move on
NextItem(w) ==
    /\ pc[w] = "returned"
    /\ IF ri[w] < Len(data[w])
       THEN /\ ri' = [ri EXCEPT ![w] = ri[w] + 1]
            /\ pc' = [pc EXCEPT ![w] = "send"]
            /\ oi' = oi
       ELSE IF oi[w] < Len(ObjectTypes)
       THEN /\ oi' = [oi EXCEPT ![w] = oi[w] + 1]
            /\ pc' = [pc EXCEPT ![w] = "fetch"]
            /\ ri' = ri
       ELSE /\ pc' = [pc EXCEPT ![w] = "done"]
            /\ UNCHANGED <<oi, ri>>
    /\ UNCHANGED <<shopify, hsProps, hsRecords, data, properties, current_properties,
                   fi, results, calls, outcomes, exc, existed, matched, call, ret, attrVars, orderVars>>

\* no SyncManager process has started
ManagerIdle ==
    /\ pc = [w \in Procs |-> "fetch"]
    /\ oi = [w \in Procs |-> 1]
    /\ ri = [w \in Procs |-> 1]
    /\ data = [w \in Procs |-> <<>>]
    /\ properties = [w \in Procs |-> EmptyDict]
    /\ current_properties = [w \in Procs |-> {}]
    /\ fi = [w \in Procs |-> 1]
    /\ results = [w \in Procs |-> <<>>]
    /\ calls = [w \in Procs |-> <<>>]
    /\ outcomes = [w \in Procs |-> <<>>]
    /\ exc = [w \in Procs |-> NoExc]
    /\ existed = [w \in Procs |-> FALSE]
    /\ matched = [w \in Procs |-> FALSE]

\* sync_custom_attributes has not been called
AttrIdle ==
    /\ attr_pc = "idle"
    /\ customers = <<>>
    /\ cust_i = 1
    /\ hubspot_props = {}
    /\ attr_metafields = EmptyDict
    /\ key_i = 1
    /\ upserts = <<>>
    /\ stale = FALSE
    /\ printed = <<>>

\* sync_shopify_orders_to_hubspot has not been called
OrdersIdle ==
    /\ order_pc = "idle"
    /\ order_run = 0
    /\ orders = <<>>
    /\ order_i = 1

\* the state after SyncManager.__init__, for a given source content
SyncInit(src) ==
    /\ shopify = src
    /\ hsProps = [contact |-> {"email"}, deal |-> {"dealname"}]
    /\ hsRecords = {}
    /\ ManagerIdle
    /\ AttrIdle
    /\ OrdersIdle

NoCall == [fn |-> "none"]
NoRet == [done |-> FALSE, value |-> PyNone]

Init ==
    /\ \E src \in SourceScenarios : SyncInit(src)
    /\ call = NoCall
    /\ ret = NoRet

Next ==
    \E w \in Procs :
        \/ FetchShopifyData(w)
        \/ MapAndFetchMetafields(w)
        \/ GetHubspotProperties(w)
        \/ CreateHubspotProperty(w)
        \/ Search(w)
        \/ Update(w)
        \/ Create(w)
        \/ NextItem(w)

Spec == Init /\ [][Next]_vars

(***************************************************************************)
(* SpecNested: get_nested_value on drawn inputs.                           *)
(***************************************************************************)
PathAlphabet == {"a", "0", "1", "2", "-", "."}
Paths == UNION {[1..n -> PathAlphabet] : n \in 0..MaxPathLen}

NestedDocs ==
    {Dict(<<"a">> :> List(<<Str("x"), Dict(<<"a">> :> Str("deep"))>>)
          @@ <<"0">> :> Str("s") @@ <<"1">> :> PyNone),
     List(<<Str("p"), List(<<Str("q")>>)>>)}

InitNested ==
    /\ SyncInit(Source(<<>>))
    /\ call \in {[fn |-> "get_nested_value", data |-> d, path |-> p] :
                    d \in NestedDocs, p \in Paths}
    /\ ret = NoRet

CallGetNestedValue ==
    /\ call.fn = "get_nested_value"
    /\ ~ret.done
    /\ ret' = [done |-> TRUE, value |-> get_nested_value(call.data, call.path)]
    /\ UNCHANGED <<call, syncVars, attrVars, orderVars>>

NextNested == CallGetNestedValue

SpecNested == InitNested /\ [][NextNested]_vars

(***************************************************************************)
(* SpecAllowed: the allowed_values step on drawn inputs.                   *)
(***************************************************************************)
StatusValues ==
    {PyNone, Str("open"), Str("closed"), Str("archived"), Str(""),
     Int_(0), Int_(1), Bool(TRUE)}
EmailValues == {PyNone, Str("a@x.com")}

\* a dict holding each of the two fields or not
WithField(d, f, present, v) == IF present THEN DictSet(d, f, v) ELSE d
PropertyMaps ==
    {WithField(WithField(EmptyDict, "status", ps, vs), "email", pe, ve) :
        ps \in BOOLEAN, vs \in StatusValues, pe \in BOOLEAN, ve \in EmailValues}

AllowedLists == {<<>>, <<Str("open"), Str("closed")>>, <<Int_(1)>>}
Defaults == {PyNone, Str("open"), Str("archived"), Str(""), Int_(0), Bool(FALSE)}
Rules == {[allowed |-> a, default |-> d] : a \in AllowedLists, d \in Defaults}

InitAllowed ==
    /\ SyncInit(Source(<<>>))
    /\ call \in {[fn |-> "allowed_values", properties |-> p,
                  allowed_cfg |-> ("status" :> r)] : p \in PropertyMaps, r \in Rules}
    /\ ret = NoRet

CallAllowedValues ==
    /\ call.fn = "allowed_values"
    /\ ~ret.done
    /\ ret' = [done |-> TRUE,
               value |-> apply_allowed_values(call.properties, call.allowed_cfg)]
    /\ UNCHANGED <<call, syncVars, attrVars, orderVars>>

NextAllowed == CallAllowedValues

SpecAllowed == InitAllowed /\ [][NextAllowed]_vars

(***************************************************************************)
(* SpecPayload: steps 1 to 3 of send_to_hubspot on drawn inputs.           *)
(***************************************************************************)
K_addr == <<"a", "d", "d", "r">>
K_city == <<"c", "i", "t", "y">>
K_tags == <<"t", "a", "g", "s">>

PayloadRecords ==
    {Customer1,
     Dict(K_id :> Int_(4) @@ K_email :> Str("b@x.com")
          @@ K_addr :> Dict(K_city :> Str("Pune"))
          @@ K_tags :> List(<<Str("new"), Str("vip")>>)),
     Dict(K_id :> Int_(5) @@ K_email :> Str("c@x.com") @@ K_addr :> PyNone)}

PayloadMappings ==
    {<< <<K_email, "email">> >>,
     << <<K_email, "email">>, <<K_addr \o <<".">> \o K_city, "city">> >>,
     << <<K_email, "email">>, <<K_addr, "address">> >>,
     << <<K_email, "email">>, <<K_tags, "tags">> >>,
     << <<K_email, "email">>, <<K_tags \o <<".", "0">>, "vip">> >>}

MetaSizes == ("key" :> "sizes" @@ "value" :> List(<<Int_(1), Int_(2)>>))
MetaDims == ("key" :> "dims" @@ "value" :> Dict(<<"w">> :> Int_(3)))

PayloadMetafields ==
    {<<>>, <<MetaVip>>, <<MetaVipMaybe>>, <<MetaVip, MetaSizes>>, <<MetaDims>>,
     <<MetaNoKey>>}

InitPayload ==
    /\ SyncInit(Source(<<>>))
    /\ call \in {[fn |-> "build_properties",
                  config |-> [Config.customer EXCEPT !.field_mapping = m],
                  shopify_obj |-> o, metafields |-> f] :
                    m \in PayloadMappings, o \in PayloadRecords, f \in PayloadMetafields}
    /\ ret = NoRet

CallBuildProperties ==
    /\ call.fn = "build_properties"
    /\ ~ret.done
    /\ ret' = [done |-> TRUE,
               value |-> build_properties(call.config, call.shopify_obj, call.metafields)]
    /\ UNCHANGED <<call, syncVars, attrVars, orderVars>>

NextPayload == CallBuildProperties

SpecPayload == InitPayload /\ [][NextPayload]_vars

(***************************************************************************)
(* SpecAttributes: Create_custom_attributes.  sync_custom_attributes is    *)
(* one coroutine; each call of create_or_update_hubspot_contact is a frame *)
(* of its own, which the caller awaits.                                    *)
(***************************************************************************)
K_first_name == <<"f", "i", "r", "s", "t", "_", "n", "a", "m", "e">>
K_last_name == <<"l", "a", "s", "t", "_", "n", "a", "m", "e">>
K_phone == <<"p", "h", "o", "n", "e">>

Customer4 == Dict(K_id :> Int_(4) @@ K_email :> Str("b@x.com") @@ K_first_name :> Str("Bo"))
MetaTier == ("key" :> "tier" @@ "value" :> Str("gold"))
\* metafields whose key is the name of the unique property
MetaEmailEmpty == ("key" :> "email" @@ "value" :> Str(""))
MetaEmailA == ("key" :> "email" @@ "value" :> Str("a@x.com"))

AttrSource ==
    [records |-> [customer |-> <<Customer1, Customer2, Customer4>>, order |-> <<>>],
     metafields |-> <<  <<MetaVip, MetaTier>>, <<>>, <<>>, <<MetaVip, MetaNoKey, MetaEmailA>>  >>]

\* the contact properties HubSpot defines by itself
DefaultContactProperties == {"email", "firstname", "lastname", "phone"}

\* a contact left by an earlier run
OldContact ==
    [id |-> 1, obj |-> "contact",
     props |-> ("email" :> Str("a@x.com") @@ "firstname" :> Str("Old"))]

\* cust.get(key)
CustGet(cust, key) == IF key \in DOMAIN cust.m THEN cust.m[key] ELSE PyNone

\* x or ""
OrEmpty(v) == IF Truthy(v) THEN v ELSE Str("")

\* get_customer_metafields: {mf.get("key"): mf.get("value") ... if key is not None}
RECURSIVE MetafieldDict(_, _)
MetafieldDict(d, metas) ==
    IF metas = <<>> THEN d
    ELSE LET mf == Head(metas)
         IN  MetafieldDict(
                 IF "key" \in DOMAIN mf
                 THEN DictSet(d, mf["key"],
                              IF "value" \in DOMAIN mf THEN mf["value"] ELSE PyNone)
                 ELSE d,
                 Tail(metas))

\* d.update(other)
RECURSIVE DictUpdate(_, _, _)
DictUpdate(d, other, from) ==
    IF from > Len(other.keys) THEN d
    ELSE DictUpdate(DictSet(d, other.keys[from], other.val[other.keys[from]]),
                    other, from + 1)

\* lines 47-57: the payload of the contact
contact_properties(cust, metas) ==
    LET base == DictSet(DictSet(DictSet(EmptyDict,
                    "email", CustGet(cust, K_email)),
                    "firstname", OrEmpty(CustGet(cust, K_first_name))),
                    "lastname", OrEmpty(CustGet(cust, K_last_name)))
        phone == CustGet(cust, K_phone)
        with_phone == IF Truthy(phone) THEN DictSet(base, "phone", phone) ELSE base
    IN  DictUpdate(with_phone, metas, 1)

\* the for loop over customers moves on
NextCustomer ==
    IF cust_i < Len(customers)
    THEN cust_i' = cust_i + 1 /\ attr_pc' = "customer"
    ELSE cust_i' = cust_i /\ attr_pc' = "finished"

Printed(msg) == Append(printed, [id |-> ItemId(customers[cust_i]), msg |-> msg])

\* lines 11-14
GetShopifyCustomers ==
    /\ attr_pc = "get_customers"
    /\ \E r \in {Resp(200), Resp(500), Raised} :
          IF r.exc \/ r.status >= 400
          THEN attr_pc' = "raised" /\ customers' = customers
          ELSE /\ customers' = shopify.records.customer
               /\ attr_pc' = IF shopify.records.customer = <<>> THEN "finished"
                             ELSE "fetch_props"
    /\ UNCHANGED <<shopify, hsProps, hsRecords, cust_i, hubspot_props, attr_metafields,
                   key_i, upserts, stale, printed, managerVars, pureVars, orderVars>>

\* line 16: hubspot_props = await fetch_hubspot_properties("contacts")
FetchHubspotProperties ==
    /\ attr_pc = "fetch_props"
    /\ \E r \in {Resp(200)} \cup DestinationFailures :
          IF r.exc \/ r.status >= 400
          THEN attr_pc' = "raised" /\ UNCHANGED <<hubspot_props, stale>>
          ELSE /\ hubspot_props' = hsProps.contact
               /\ stale' = FALSE
               /\ attr_pc' = "customer"
    /\ UNCHANGED <<shopify, hsProps, hsRecords, customers, cust_i, attr_metafields, key_i,
                   upserts, printed, managerVars, pureVars, orderVars>>

\* lines 19-28: the email test at the head of the loop
CheckEmail ==
    /\ attr_pc = "customer"
    /\ IF ~Truthy(CustGet(customers[cust_i], K_email))
       THEN printed' = Printed("skipped") /\ NextCustomer
       ELSE printed' = printed /\ attr_pc' = "get_metafields" /\ cust_i' = cust_i
    /\ UNCHANGED <<shopify, hsProps, hsRecords, customers, hubspot_props, attr_metafields,
                   key_i, upserts, stale, managerVars, pureVars, orderVars>>

\* line 31: metafields = await get_customer_metafields(customer_id)
GetCustomerMetafields ==
    /\ attr_pc = "get_metafields"
    /\ \E r \in {Resp(200), Resp(500), Raised} :
          IF r.exc \/ r.status >= 400
          THEN attr_pc' = "raised" /\ UNCHANGED <<attr_metafields, key_i>>
          ELSE /\ attr_metafields' =
                     MetafieldDict(EmptyDict,
                                   shopify.metafields[ItemId(customers[cust_i])])
               /\ key_i' = 1
               /\ attr_pc' = "test_key"
    /\ UNCHANGED <<shopify, hsProps, hsRecords, customers, cust_i, hubspot_props, upserts,
                   stale, printed, managerVars, pureVars, orderVars>>

\* lines 34-35: if key not in hubspot_props
TestKey ==
    /\ attr_pc = "test_key"
    /\ IF key_i > Len(attr_metafields.keys)
       THEN attr_pc' = "upsert" /\ key_i' = key_i
       ELSE IF attr_metafields.keys[key_i] \notin hubspot_props
       THEN attr_pc' = "create_property" /\ key_i' = key_i
       ELSE attr_pc' = attr_pc /\ key_i' = key_i + 1
    /\ UNCHANGED <<shopify, hsProps, hsRecords, customers, cust_i, hubspot_props,
                   attr_metafields, upserts, stale, printed, managerVars, pureVars,
                   orderVars>>

\* the loop as it would be going on to the next key with the set it holds
after_property_creation_cached == "test_key"

\* where the loop goes after create_hubspot_property (lines 44-45)
after_property_creation == "refetch"

\* lines 36-42: status_code, _ = await create_hubspot_property(key, key)
CreateContactProperty ==
    /\ attr_pc = "create_property"
    /\ LET key == attr_metafields.keys[key_i]
       IN  \E r \in {Resp(IF key \in hsProps.contact THEN 409 ELSE 201)}
                      \cup DestinationFailures :
              /\ hsProps' = IF ~r.exc /\ r.status = 201
                            THEN [hsProps EXCEPT !.contact = @ \cup {key}]
                            ELSE hsProps
              /\ stale' = TRUE
              /\ IF r.exc
                 THEN attr_pc' = "raised" /\ key_i' = key_i
                 ELSE attr_pc' = after_property_creation /\ key_i' = key_i + 1
    /\ UNCHANGED <<shopify, hsRecords, customers, cust_i, hubspot_props, attr_metafields,
                   upserts, printed, managerVars, pureVars, orderVars>>

\* lines 44-45: hubspot_props = await fetch_hubspot_properties("contacts")
RefetchHubspotProperties ==
    /\ attr_pc = "refetch"
    /\ \E r \in {Resp(200)} \cup DestinationFailures :
          IF r.exc \/ r.status >= 400
          THEN attr_pc' = "raised" /\ UNCHANGED <<hubspot_props, stale>>
          ELSE /\ hubspot_props' = hsProps.contact
               /\ stale' = FALSE
               /\ attr_pc' = "test_key"
    /\ UNCHANGED <<shopify, hsProps, hsRecords, customers, cust_i, attr_metafields, key_i,
                   upserts, printed, managerVars, pureVars, orderVars>>

\* the call as it would be started without being awaited
upsert_detached == FALSE

\* line 60: result = await create_or_update_hubspot_contact(..)
upsert_awaited == TRUE

\* lines 47-60: the payload is built and create_or_update_hubspot_contact called
CallUpsert ==
    /\ attr_pc = "upsert"
    /\ LET cust == customers[cust_i]
           frame == [cust |-> cust_i, email |-> CustGet(cust, K_email),
                     props |-> contact_properties(cust, attr_metafields),
                     pc |-> "create", result |-> "none", calls |-> <<>>,
                     contact_id |-> 0, before |-> 0]
       IN  /\ upserts' = Append(upserts, frame)
           /\ IF upsert_awaited
              THEN attr_pc' = "await" /\ cust_i' = cust_i
              ELSE NextCustomer
    /\ UNCHANGED <<shopify, hsProps, hsRecords, customers, hubspot_props, attr_metafields,
                   key_i, stale, printed, managerVars, pureVars, orderVars>>

\* lines 61-67: the awaited call has returned, or raised
AwaitUpsert ==
    /\ attr_pc = "await"
    /\ LET frame == upserts[Len(upserts)]
       IN  /\ frame.pc \in {"done", "raised"}
           /\ IF frame.pc = "raised"
              THEN attr_pc' = "raised" /\ UNCHANGED <<cust_i, printed>>
              ELSE /\ printed' = Printed(IF frame.result \in {"created", "updated"}
                                         THEN frame.result ELSE "could_not_sync")
                   /\ NextCustomer
    /\ UNCHANGED <<shopify, hsProps, hsRecords, customers, hubspot_props, attr_metafields,
                   key_i, upserts, stale, managerVars, pureVars, orderVars>>

\* the frame u of create_or_update_hubspot_contact after a step
Frame(u, f) ==
    /\ upserts' = [upserts EXCEPT ![u] = f]
    /\ UNCHANGED <<shopify, hsProps, attr_pc, customers, cust_i, hubspot_props,
                   attr_metafields, key_i, stale, printed, managerVars, pureVars,
                   orderVars>>

Returned(f, result) == [f EXCEPT !.pc = "done", !.result = result]

\* lines 48-57: the create call and the test of its status
UpsertCreate(u) ==
    /\ upserts[u].pc = "create"
    /\ LET f == upserts[u]
           good == IF ~Storable("contact", f.props) THEN 400
                   ELSE IF Conflicts("contact", f.props) THEN 409
                   ELSE 201
           new == [id |-> Cardinality(hsRecords) + 1, obj |-> "contact",
                   props |-> f.props.val]
       IN  \E r \in {Resp(good)} \cup DestinationFailures :
              LET g == [f EXCEPT !.calls = Append(@, Entry("create", "", r)),
                                 !.before = Cardinality(Matches("contact", "email",
                                                                f.email))]
              IN  /\ hsRecords' = IF ~r.exc /\ r.status = 201
                                  THEN hsRecords \cup {new}
                                  ELSE hsRecords
                  /\ Frame(u, IF r.exc THEN [g EXCEPT !.pc = "raised"]
                              ELSE IF r.status = 201 THEN Returned(g, "created")
                              ELSE IF r.status # 409 THEN Returned(g, "failed")
                              ELSE [g EXCEPT !.pc = "search"])

\* lines 59-78: the search by email and the tests of its answer
UpsertSearch(u) ==
    /\ upserts[u].pc = "search"
    /\ LET f == upserts[u]
           found == Matches("contact", "email", f.email)
       IN  \E r \in {Resp(200)} \cup DestinationFailures :
              LET g == [f EXCEPT !.calls = Append(@, Entry("search", "", r))]
              IN  /\ hsRecords' = hsRecords
                  /\ Frame(u, IF r.exc THEN [g EXCEPT !.pc = "raised"]
                              ELSE IF r.status # 200 THEN Returned(g, "failed_search")
                              ELSE IF found = {} THEN Returned(g, "not_found")
                              ELSE [g EXCEPT !.pc = "patch",
                                             !.contact_id =
                                                 FirstMatch("contact", "email", f.email).id])

\* create_or_update_hubspot_contact as it would be expecting 204 from the patch
patch_result_no_content(status) == IF status = 204 THEN "updated" ELSE "failed_update"

\* lines 82-84: the state returned after the patch call
patch_result(status) == IF status = 200 THEN "updated" ELSE "failed_update"

\* lines 80-84: the patch of the contact found
UpsertPatch(u) ==
    /\ upserts[u].pc = "patch"
    /\ LET f == upserts[u]
           old == CHOOSE q \in hsRecords : q.id = f.contact_id
           good == IF ~Storable("contact", f.props) THEN 400
                   ELSE IF ConflictsWithOther("contact", f.props, old) THEN 409
                   ELSE 200
       IN  \E r \in {Resp(good)} \cup DestinationFailures :
              LET g == [f EXCEPT !.calls = Append(@, Entry("patch", "", r))]
              IN  /\ hsRecords' = IF ~r.exc /\ r.status = 200
                                  THEN (hsRecords \ {old}) \cup
                                       {[old EXCEPT !.props = Merged(old.props, f.props)]}
                                  ELSE hsRecords
                  /\ Frame(u, IF r.exc THEN [g EXCEPT !.pc = "raised"]
                              ELSE Returned(g, patch_result(r.status)))

\* the event loop resumes a frame that is ready to run
StepUpsertCreate == \E u \in DOMAIN upserts : UpsertCreate(u)
StepUpsertSearch == \E u \in DOMAIN upserts : UpsertSearch(u)
StepUpsertPatch == \E u \in DOMAIN upserts : UpsertPatch(u)

\* asyncio.run(main()): the destination as an earlier run may have left it
InitAttributes ==
    /\ shopify = AttrSource
    /\ \E known \in {{}, {"vip"}} :
          hsProps = [contact |-> DefaultContactProperties \cup known,
                     deal |-> {"dealname"}]
    /\ hsRecords \in {{}, {OldContact}}
    /\ ManagerIdle
    /\ OrdersIdle
    /\ attr_pc = "get_customers"
    /\ customers = <<>>
    /\ cust_i = 1
    /\ hubspot_props = {}
    /\ attr_metafields = EmptyDict
    /\ key_i = 1
    /\ upserts = <<>>
    /\ stale = FALSE
    /\ printed = <<>>
    /\ call = NoCall
    /\ ret = NoRet

NextAttributes ==
    \/ GetShopifyCustomers
    \/ FetchHubspotProperties
    \/ CheckEmail
    \/ GetCustomerMetafields
    \/ TestKey
    \/ CreateContactProperty
    \/ RefetchHubspotProperties
    \/ CallUpsert
    \/ AwaitUpsert
    \/ StepUpsertCreate
    \/ StepUpsertSearch
    \/ StepUpsertPatch

SpecAttributes == InitAttributes /\ [][NextAttributes]_vars

(***************************************************************************)
(* SpecOrders: create_order/02_field_missing_hubspot.py, run repeatedly    *)
(* against one destination.                                                *)
(***************************************************************************)
MaxRuns == 3

K_created_at == <<"c", "r", "e", "a", "t", "e", "d", "_", "a", "t">>
K_currency == <<"c", "u", "r", "r", "e", "n", "c", "y">>

ShopOrder1 ==
    Dict(K_id :> Int_(7) @@ K_created_at :> Str("2025-10-31T03:07:50-04:00")
         @@ K_currency :> Str("INR"))
ShopOrder2 ==
    Dict(K_id :> Int_(12) @@ K_created_at :> Str("2025-11-01T10:00:00Z"))

OrdersSource ==
    [records |-> [customer |-> <<>>, order |-> <<ShopOrder1, ShopOrder2>>],
     metafields |-> <<>>]

\* str(n) for n >= 0, as the sequence of its characters
DigitChar(d) ==
    CASE d = 0 -> "0" [] d = 1 -> "1" [] d = 2 -> "2" [] d = 3 -> "3" [] d = 4 -> "4"
      [] d = 5 -> "5" [] d = 6 -> "6" [] d = 7 -> "7" [] d = 8 -> "8" [] d = 9 -> "9"
RECURSIVE Decimal(_)
Decimal(n) == IF n < 10 THEN <<DigitChar(n)>> ELSE Append(Decimal(n \div 10), DigitChar(n % 10))

\* order.get(key, default)
OrderGet(order, key, default) ==
    IF key \in DOMAIN order.m THEN order.m[key] ELSE default

\* f"Shopify Order #{order['id']}"
OrderName(order) == Str(<<"Shopify Order #">> \o Decimal(ItemId(order)))

\* the properties create_hubspot_order posts (lines 77-87)
order_payload(order) ==
    [keys |-> <<"hs_order_name", "hs_currency_code">>,
     val |-> ("hs_order_name" :> OrderName(order)
              @@ "hs_currency_code" :> OrderGet(order, K_currency, Str("USD")))]

\* the loop of sync_shopify_orders_to_hubspot moves to the next order
NextOrder ==
    IF order_i < Len(orders)
    THEN order_i' = order_i + 1 /\ order_pc' = "find"
    ELSE order_i' = order_i /\ order_pc' = "finished"

\* the script is started, for the first time or again
StartOrdersRun ==
    /\ order_pc \in {"idle", "finished", "raised"}
    /\ order_run < MaxRuns
    /\ order_run' = order_run + 1
    /\ order_pc' = "get_orders"
    /\ orders' = <<>>
    /\ order_i' = 1
    /\ UNCHANGED <<shopify, hsProps, hsRecords, managerVars, pureVars, attrVars>>

\* line 101: orders = get_shopify_orders()
GetShopifyOrders ==
    /\ order_pc = "get_orders"
    /\ \E r \in {Resp(200), Resp(500), Raised} :
          IF r.exc \/ r.status >= 400
          THEN order_pc' = "raised" /\ UNCHANGED <<orders, order_i>>
          ELSE /\ orders' = shopify.records.order
               /\ order_i' = 1
               /\ order_pc' = IF shopify.records.order = <<>> THEN "finished" ELSE "find"
    /\ UNCHANGED <<shopify, hsProps, hsRecords, order_run, managerVars, pureVars, attrVars>>

\* lines 105-111: find_hubspot_order(order_id) and the test of its result
FindHubspotOrder ==
    /\ order_pc = "find"
    /\ LET order_id == ItemId(orders[order_i])
           found == Matches("order", "shopify_order_id", Str(Decimal(order_id)))
       IN  \E r \in {Resp(200)} \cup DestinationFailures :
              IF r.exc \/ r.status >= 400
              THEN order_pc' = "raised" /\ order_i' = order_i
              ELSE IF found # {}
              THEN NextOrder
              ELSE order_pc' = "create" /\ order_i' = order_i
    /\ UNCHANGED <<shopify, hsProps, hsRecords, order_run, orders, managerVars, pureVars,
                   attrVars>>

\* line 114: create_hubspot_order(order)
CreateHubspotOrder ==
    /\ order_pc = "create"
    /\ LET order == orders[order_i]
           new == [id |-> Cardinality(hsRecords) + 1, obj |-> "order",
                   props |-> order_payload(order).val]
       IN  IF OrderGet(order, K_created_at, PyNone) = PyNone
           THEN order_pc' = "raised" /\ UNCHANGED <<order_i, hsRecords>>
           ELSE \E r \in {Resp(201)} \cup DestinationFailures :
                   IF r.exc
                   THEN order_pc' = "raised" /\ UNCHANGED <<order_i, hsRecords>>
                   ELSE /\ hsRecords' = IF r.status = 201 THEN hsRecords \cup {new}
                                        ELSE hsRecords
                        /\ NextOrder
    /\ UNCHANGED <<shopify, hsProps, order_run, orders, managerVars, pureVars, attrVars>>

InitOrders ==
    /\ shopify = OrdersSource
    /\ hsProps = [contact |-> {"email"}, deal |-> {"dealname"}]
    /\ hsRecords = {}
    /\ ManagerIdle
    /\ AttrIdle
    /\ OrdersIdle
    /\ call = NoCall
    /\ ret = NoRet

NextOrders ==
    \/ StartOrdersRun
    \/ GetShopifyOrders
    \/ FindHubspotOrder
    \/ CreateHubspotOrder

SpecOrders == InitOrders /\ [][NextOrders]_vars

(***************************************************************************)
(* SpecSolo: one SyncManager run with nothing else writing the destination, *)
(* on a source whose records reach every branch of send_to_hubspot.        *)
(***************************************************************************)
Order5 == Dict(K_id :> Int_(5) @@ K_name :> Str("#1002"))

\* the source store, with the metafields of customer 4 as given
SoloSource(m4) ==
    [records |-> [customer |-> <<Customer1, Customer2, Customer4>>,
                  order |-> <<Order1, Order5>>],
     metafields |-> <<  <<MetaVip>>, <<MetaVipMaybe>>, <<>>, m4, <<>>  >>]

SoloScenarios ==
    {SoloSource(<<MetaVip, MetaTier>>), SoloSource(<<MetaEmailEmpty>>),
     SoloSource(<<MetaEmailA>>)}

\* a second contact left by an earlier run
OtherContact ==
    [id |-> 2, obj |-> "contact", props |-> ("email" :> Str("b@x.com"))]

InitSolo ==
    /\ shopify \in SoloScenarios
    /\ hsProps = [contact |-> {"email", "firstname"}, deal |-> {"dealname"}]
    /\ hsRecords \in {{}, {OldContact}, {OldContact, OtherContact}}
    /\ ManagerIdle
    /\ AttrIdle
    /\ OrdersIdle
    /\ call = NoCall
    /\ ret = NoRet

\* python sync_manager.py, once
NextSolo ==
    \/ FetchShopifyData(1)
    \/ MapAndFetchMetafields(1)
    \/ GetHubspotProperties(1)
    \/ CreateHubspotProperty(1)
    \/ Search(1)
    \/ Update(1)
    \/ Create(1)
    \/ NextItem(1)

SpecSolo == InitSolo /\ [][NextSolo]_vars

(***************************************************************************)
(* SpecUpserts: the two upserts, create_or_update_hubspot_contact as       *)
(* sync_custom_attributes calls it and steps 5 and 6 of send_to_hubspot,   *)
(* each run over the same sequence of records on a destination of its own, *)
(* every call answered as a destination in order answers it.  A record is  *)
(* a customer with its metafields; both upserts are given the payload of   *)
(* contact_properties.                                                     *)
(***************************************************************************)
MaxRecords == 2

\* contacts among recs whose email is value
ContactsOf(recs, value) ==
    {q \in recs : q.obj = "contact" /\ "email" \in DOMAIN q.props
                                   /\ q.props["email"] = value}

\* the destination after a post answered 201
Posted(recs, props) ==
    recs \cup {[id |-> Cardinality(recs) + 1, obj |-> "contact", props |-> props.val]}

\* the destination after a patch of results[0] answered 200
Patched(recs, found, props) ==
    LET old == CHOOSE q \in found : \A o \in found : q.id <= o.id
    IN  (recs \ {old}) \cup {[old EXCEPT !.props = Merged(old.props, props)]}

\* sync_attributes.py lines 26-28 and 60, hubspot_service.py lines 48-84
CreateFirst(recs, cust, metas) ==
    LET email == CustGet(cust, K_email)
        props == contact_properties(cust, MetafieldDict(EmptyDict, metas))
        found == ContactsOf(recs, email)
        old == CHOOSE q \in found : \A o \in found : q.id <= o.id
    IN  IF ~Truthy(email) THEN [recs |-> recs, state |-> "skipped"]
        ELSE IF ContactsOf(recs, props.val["email"]) = {}
        THEN [recs |-> Posted(recs, props), state |-> "created"]
        ELSE IF found = {} THEN [recs |-> recs, state |-> "not_found"]
        ELSE IF ContactsOf(recs, props.val["email"]) \ {old} # {}
        THEN [recs |-> recs, state |-> "failed_update"]
        ELSE [recs |-> Patched(recs, found, props), state |-> "updated"]

\* sync_manager.py lines 124-154, unique_field email
SearchFirst(recs, cust, metas) ==
    LET props == contact_properties(cust, MetafieldDict(EmptyDict, metas))
        found == ContactsOf(recs, props.val["email"])
    IN  IF UniqueMissing(props, "email") THEN [recs |-> recs, state |-> "skipped"]
        ELSE IF found # {}
        THEN [recs |-> Patched(recs, found, props), state |-> "updated"]
        ELSE [recs |-> Posted(recs, props), state |-> "created"]

\* the for loop over the records: the destination and the states in order
RECURSIVE RunCreateFirst(_, _, _)
RunCreateFirst(recs, states, records) ==
    IF records = <<>> THEN [recs |-> recs, states |-> states]
    ELSE LET r == CreateFirst(recs, Head(records).cust, Head(records).metas)
         IN  RunCreateFirst(r.recs, Append(states, r.state), Tail(records))

RECURSIVE RunSearchFirst(_, _, _)
RunSearchFirst(recs, states, records) ==
    IF records = <<>> THEN [recs |-> recs, states |-> states]
    ELSE LET r == SearchFirst(recs, Head(records).cust, Head(records).metas)
         IN  RunSearchFirst(r.recs, Append(states, r.state), Tail(records))

UpsertRecords ==
    {[cust |-> c, metas |-> m] :
        c \in {Customer1, Customer2, Customer4}, m \in {<<>>, <<MetaEmailA>>}}

InitUpserts ==
    /\ SyncInit(Source(<<>>))
    /\ \E n \in 0..MaxRecords : \E records \in [1..n -> UpsertRecords] :
       \E recs \in {{}, {OldContact}} :
          call = [fn |-> "upserts", recs |-> recs, records |-> records]
    /\ ret = NoRet

CallUpserts ==
    /\ call.fn = "upserts"
    /\ ~ret.done
    /\ ret' = [done |-> TRUE,
               value |-> [create_first |-> RunCreateFirst(call.recs, <<>>, call.records),
                          search_first |-> RunSearchFirst(call.recs, <<>>, call.records)]]
    /\ UNCHANGED <<call, syncVars, attrVars, orderVars>>

NextUpserts == CallUpserts

SpecUpserts == InitUpserts /\ [][NextUpserts]_vars

(***************************************************************************)
(* Properties                                                              *)
(***************************************************************************)
Last(s) == s[Len(s)]
Issued(w, c) == \E i \in DOMAIN calls[w] : calls[w][i].call = c
AfterReconcile(w) == pc[w] \in {"search", "update", "create", "returned"}

\* C1: syncing an item a second time with identical properties, after a first
\* sync reported it created, reports updated and issues no record create.
C1_CreatedThenUpdated ==
    \A w \in Procs :
        (pc[w] = "returned" /\ existed[w]) =>
            (Last(outcomes[w]).msg = "updated" /\ ~Issued(w, "create"))

\* C2: no record create is issued for a unique value for which the destination
\* held a record when the search was made, whatever the search call answered.
C2_NoCreateWhenMatch ==
    \A w \in Procs : matched[w] => (pc[w] # "create" /\ ~Issued(w, "create"))

\* C3: an item reported skipped for its missing unique value caused no network
\* call at all.
C3_SkipIssuesNoCalls ==
    \A w \in Procs :
        (pc[w] = "returned" /\ Last(outcomes[w]).msg = "skipped") => calls[w] = <<>>

\* C4: a failure raised while one item is processed never ends the run with a
\* later item or a later object type left unprocessed.
C4_LaterRecordsProcessed ==
    \A w \in Procs :
        (pc[w] = "raised" /\ exc[w].in = "send_to_hubspot") =>
            (ri[w] = Len(data[w]) /\ oi[w] = Len(ObjectTypes))

\* C5: once the property-creation loop has run for an item, every key of its
\* property map is a property of the destination object.
C5_PropertiesSuperset ==
    \A w \in Procs :
        AfterReconcile(w) => Range(properties[w].keys) \subseteq hsProps[HsObj(w)]

\* the process is inside send_to_hubspot for the item calls[w] belongs to
InItem(w) ==
    \/ pc[w] \in {"get_props", "ensure", "search", "update", "create", "returned"}
    \/ (pc[w] = "raised" /\ exc[w].in = "send_to_hubspot")

\* C6: a property-creation call answered 201 or 409 never raises and the item
\* goes on to the unique-value test and the search; property reconciliation
\* raises only after a call that failed (an exception or an error status).
C6_AlreadyExistsIsSuccess ==
    \A w \in Procs :
        /\ (InItem(w) /\ calls[w] # <<>> /\ Last(calls[w]).call = "create_property"
                /\ ~Last(calls[w]).exc /\ Last(calls[w]).status \in {201, 409}) =>
              /\ pc[w] \in {"ensure", "search", "returned"}
              /\ (pc[w] = "returned" =>
                    UniqueMissing(properties[w], Cfg(w).unique_field))
        /\ (pc[w] = "raised" /\ exc[w].in = "send_to_hubspot" /\ calls[w] # <<>>
                /\ Last(calls[w]).call \in {"get_hubspot_properties", "create_property"}) =>
              (Last(calls[w]).exc \/ Last(calls[w]).status \notin {200, 201, 409})

\* C6 witness: two processes raced to create the same property, one was
\* answered 201 and the other 409, and both reached the search of their item.
C6_RaceBothReady ==
    \E w \in Procs : \E v \in Procs \ {w} :
        /\ pc[w] \in {"search", "update", "create"}
        /\ pc[v] \in {"search", "update", "create"}
        /\ \E i \in DOMAIN calls[w] :
              calls[w][i] = [call |-> "create_property", arg |-> "vip",
                             status |-> 201, exc |-> FALSE]
        /\ \E i \in DOMAIN calls[v] :
              calls[v][i] = [call |-> "create_property", arg |-> "vip",
                             status |-> 409, exc |-> FALSE]

\* C7: under a rule without a default, no governed property is left in the map
\* with a value outside the allowed list.
C7_NoDefaultNeverLeavesInvalid ==
    (call.fn = "allowed_values" /\ ret.done) =>
        \A f \in DOMAIN call.allowed_cfg :
            (call.allowed_cfg[f].default = PyNone /\ DictHas(ret.value, f)) =>
                PyIn(ret.value.val[f], call.allowed_cfg[f].allowed)

\* C8: under a rule with a default, a governed property whose (non-null) value
\* is outside the (non-empty) allowed list ends with exactly the default.
C8_DefaultSubstituted ==
    (call.fn = "allowed_values" /\ ret.done) =>
        \A f \in DOMAIN call.allowed_cfg :
            LET rule == call.allowed_cfg[f]
            IN  (/\ rule.default # PyNone
                 /\ rule.allowed # <<>>
                 /\ DictHas(call.properties, f)
                 /\ call.properties.val[f] # PyNone
                 /\ ~PyIn(call.properties.val[f], rule.allowed)) =>
                    (DictHas(ret.value, f) /\ ret.value.val[f] = rule.default)

\* a path is malformed for a value when some segment names a missing key, is
\* not an index in 0..length-1 of a sequence, or is applied to a scalar or null
RECURSIVE Malformed(_, _)
Malformed(d, keys) ==
    /\ keys # <<>>
    /\ LET key == Head(keys)
       IN  CASE d.t = "dict" ->
                  key \notin DOMAIN d.m \/ Malformed(d.m[key], Tail(keys))
             [] d.t = "list" ->
                  LET i == PyInt(key)
                  IN  \/ ~i.ok
                      \/ i.n < 0
                      \/ i.n >= Len(d.items)
                      \/ Malformed(d.items[i.n + 1], Tail(keys))
             [] OTHER -> TRUE

\* C9: get_nested_value returns null for every malformed path.
C9_MalformedPathYieldsNone ==
    (call.fn = "get_nested_value" /\ ret.done) =>
        (Malformed(call.data, Split(call.path)) => ret.value = PyNone)

\* C10: an item is reported updated only if its update call returned a success
\* status.
C10_UpdatedOnlyOnSuccess ==
    \A w \in Procs :
        (pc[w] = "returned" /\ Last(outcomes[w]).msg = "updated") =>
            \E i \in DOMAIN calls[w] :
                calls[w][i].call = "update" /\ calls[w][i].status \in {200, 204}

\* positions of the lines printed by w for the record id of object type obj
OutcomesFor(w, obj, id) ==
    {i \in DOMAIN outcomes[w] : outcomes[w][i].obj = obj /\ outcomes[w][i].id = id}

\* C11: an item whose processing has ended, by a return or by an exception,
\* has exactly one reported outcome.
C11_ExactlyOneOutcome ==
    \A w \in Procs :
        (pc[w] = "returned" \/ (pc[w] = "raised" /\ exc[w].in = "send_to_hubspot")) =>
            Cardinality(OutcomesFor(w, ObjType(w), ItemId(Item(w)))) = 1

\* a destination call of the current item was answered 401 or 403
AuthFailed(w) ==
    \E i \in DOMAIN calls[w] : ~calls[w][i].exc /\ calls[w][i].status \in AuthStatuses

\* C12: once a destination call of a process was answered 401 or 403, that
\* process issues no further network call.
C12_AuthFailureStopsRun ==
    [][\A w \in Procs : AuthFailed(w) => calls'[w] = calls[w]]_vars

\* the list fetch_metafields returned for the current item
Fetched(w) ==
    IF calls[w][1].status = 200 THEN shopify.metafields[ItemId(Item(w))] ELSE <<>>

\* the map of send_to_hubspot was built for the current item without raising
Built(w) == pc[w] \in {"get_props", "ensure", "search", "update", "create", "returned"}

\* no destination call of the current item failed
AllAnswered(w) ==
    \A i \in DOMAIN calls[w] :
        calls[w][i].call # "fetch_metafields" =>
            (~calls[w][i].exc /\ calls[w][i].status < 400)

C15_SourceNeverWritten == [][shopify' = shopify]_vars

\* C15 witness: one run went through every item and another was aborted by
\* an exception, with records written to the destination.
C15_RunsEnded ==
    \E w \in Procs : \E v \in Procs :
        pc[w] = "done" /\ pc[v] = "raised" /\ hsRecords # {}

\* C19: for every item the property pass comes after the map is built and
\* normalized and before the upsert: the map is a fixed point of the
\* allowed_values step, every property created is a key of it, no search,
\* create or update call precedes a call of the property pass, and the search
\* is issued only when the pass has gone through every key.
C19_PipelineOrder ==
    \A w \in Procs :
        Built(w) =>
            /\ properties[w] = apply_allowed_values(properties[w], Cfg(w).allowed_values)
            /\ \A i \in DOMAIN calls[w] :
                  /\ calls[w][i].call = "create_property" =>
                        calls[w][i].arg \in Range(properties[w].keys)
                  /\ calls[w][i].call \in {"search", "create", "update"} =>
                        \A j \in DOMAIN calls[w] :
                            calls[w][j].call \in {"fetch_metafields", "get_hubspot_properties",
                                                  "create_property"} => j < i
            /\ (pc[w] \in {"search", "update", "create"} \/ Issued(w, "search")) =>
                  fi[w] = Len(properties[w].keys) + 1

\* C19 witness: an item whose metafield value was replaced by the default
\* went through the property pass, and an item went through property
\* creation, search and create.
C19_PassThenUpsert ==
    /\ \E w \in Procs :
          /\ pc[w] = "returned" /\ Item(w) = Customer2
          /\ DictGet(properties[w], "vip") = Str("false")
          /\ Issued(w, "create_property")
    /\ \E v \in Procs :
          /\ pc[v] = "returned"
          /\ Issued(v, "create_property") /\ Issued(v, "search") /\ Issued(v, "create")

\* a str, a number, a bool or None
IsScalar(v) == v.t \notin {"dict", "list"}

\* C13: every value of the property map built for a record is a scalar.
C13_PayloadValuesScalar ==
    (call.fn = "build_properties" /\ ret.done /\ ret.value.ok) =>
        \A k \in DOMAIN ret.value.props.val : IsScalar(ret.value.props.val[k])

\* the destination orders made for a source order
OrdersFor(order) ==
    {q \in hsRecords : q.obj = "order" /\ q.props["hs_order_name"] = OrderName(order)}

\* C17: over any number of runs the destination holds at most one order per
\* source order.
C17_OneOrderPerSourceOrder ==
    \A i \in DOMAIN shopify.records.order :
        Cardinality(OrdersFor(shopify.records.order[i])) <= 1

\* the answer of the call named c made by a frame, 0 when it was not made
Answer(f, c) ==
    IF \E i \in DOMAIN f.calls : f.calls[i].call = c /\ ~f.calls[i].exc
    THEN (CHOOSE e \in Range(f.calls) : e.call = c /\ ~e.exc).status
    ELSE 0

\* C16: when create_or_update_hubspot_contact is called for an email that has
\* a contact and its create call is answered 409, the number of contacts of
\* that email stays what it was, and when the search and the patch are
\* answered 200 the call returns updated after patching a contact of that
\* email.
C16_ConflictEndsInUpdate ==
    \A u \in DOMAIN upserts :
        LET f == upserts[u]
        IN  (Answer(f, "create") = 409 /\ f.before >= 1) =>
                /\ Cardinality(Matches("contact", "email", f.email)) = f.before
                /\ (f.pc = "done" /\ Answer(f, "search") = 200 /\ Answer(f, "patch") = 200) =>
                      /\ f.result = "updated"
                      /\ \E q \in Matches("contact", "email", f.email) :
                            q.id = f.contact_id

\* C16 witness: a call whose create was answered 409 returned updated, and
\* the contact holds the payload's values.
C16_UpdatedAfterConflict ==
    \E u \in DOMAIN upserts :
        /\ Answer(upserts[u], "create") = 409
        /\ upserts[u].pc = "done" /\ upserts[u].result = "updated"
        /\ \E q \in hsRecords :
              q.id = upserts[u].contact_id /\ q.props["firstname"] = Str("")

\* C18: whenever a key is tested against hubspot_props, hubspot_props was
\* fetched after the latest property-creation call.
C18_TestOnFreshSet ==
    (attr_pc = "test_key" /\ key_i <= Len(attr_metafields.keys)) => ~stale

\* C18 witness: a key is about to be tested, for a later customer, on a set
\* that holds a property created during this run.
C18_TestAfterCreation ==
    /\ attr_pc = "test_key" /\ key_i <= Len(attr_metafields.keys)
    /\ cust_i = 3
    /\ "tier" \in hubspot_props

\* C20: a frame of create_or_update_hubspot_contact that has not ended is the
\* latest one, belongs to the customer the loop is at, and the loop is
\* suspended on it; the frames are in the order of the customers.
C20_OneRecordAtATime ==
    /\ \A u \in DOMAIN upserts :
          upserts[u].pc \notin {"done", "raised"} =>
              (u = Len(upserts) /\ upserts[u].cust = cust_i /\ attr_pc = "await")
    /\ \A u \in DOMAIN upserts : \A v \in DOMAIN upserts :
          u < v => upserts[u].cust < upserts[v].cust

\* C20 witness: the metafields of the third customer are about to be fetched
\* after the frame of the first customer ended with its three calls made.
C20_NextAfterCompletion ==
    /\ attr_pc = "get_metafields" /\ cust_i = 3
    /\ Len(upserts) = 1 /\ upserts[1].pc = "done" /\ Len(upserts[1].calls) = 3

\* C21: applying the allowed_values step to the map it returned, with the
\* same rules, returns that map again.
C21_AllowedStepIdempotent ==
    (call.fn = "allowed_values" /\ ret.done) =>
        apply_allowed_values(ret.value, call.allowed_cfg) = ret.value

\* C21 witness: the step replaced a value by a default that is itself outside
\* the allowed list.
C21_DefaultOutsideAllowed ==
    /\ call.fn = "allowed_values" /\ ret.done
    /\ ret.value # call.properties
    /\ DictHas(ret.value, "status")
    /\ ~PyIn(ret.value.val["status"], call.allowed_cfg["status"].allowed)

Count(log, c) == Cardinality({i \in DOMAIN log : log[i].call = c})

\* C23: for one source record a run issues at most one record create or one
\* record update, never both and never the same call a second time.
C23_AtMostOneUpsertCall ==
    \A w \in Procs :
        /\ Count(calls[w], "create") <= 1
        /\ Count(calls[w], "update") <= 1
        /\ Count(calls[w], "create") + Count(calls[w], "update") <= 1

\* C23 witness: the create call failed with 500 and send_to_hubspot returned
\* without issuing it again.
C23_FailedCreateNotRetried ==
    /\ pc[1] = "returned"
    /\ Last(calls[1]) = Entry("create", "", Resp(500))
    /\ Count(calls[1], "create") = 1
    /\ Last(outcomes[1]).msg = "failed"

\* C24: after the search, the patch branch is taken exactly when the search
\* returned a result; an update is the only one of its record, follows a
\* non-empty result and changes no record but the first result; a create is
\* the only one of its record and follows an empty result; the branch taken
\* issues its call before send_to_hubspot returns.
C24_DecisionFollowsSearch ==
    [][\A w \in Procs :
          /\ (pc[w] = "search" /\ pc'[w] \notin {"search", "raised"}) =>
                pc'[w] = (IF results'[w] # <<>> THEN "update" ELSE "create")
          /\ (pc[w] \in {"update", "create"} /\ pc'[w] # pc[w]) =>
                /\ Last(calls'[w]).call = pc[w]
                /\ results'[w] = results[w]
          /\ (calls'[w] # calls[w] /\ Last(calls'[w]).call = "update") =>
                /\ results[w] # <<>>
                /\ Count(calls'[w], "update") = 1 /\ Count(calls'[w], "create") = 0
                /\ \A q \in hsRecords \cup hsRecords' :
                      q.id # results[w][1] => q \in hsRecords \cap hsRecords'
          /\ (calls'[w] # calls[w] /\ Last(calls'[w]).call = "create") =>
                /\ results[w] = <<>>
                /\ Count(calls'[w], "create") = 1 /\ Count(calls'[w], "update") = 0
      ]_vars

\* C24 witness: with two contacts in the destination the search returned the
\* second and the update, answered 200, changed it.
C24_UpdatedFirstResult ==
    /\ pc[1] = "returned"
    /\ results[1] = <<2>>
    /\ Last(calls[1]) = Entry("update", "", Resp(200))
    /\ Cardinality({q \in hsRecords : q.obj = "contact"}) >= 2
    /\ \E q \in hsRecords : q.id = 2 /\ q.props = Merged(OtherContact.props, properties[1])

\* C25: while send_to_hubspot has sent a search, a create or an update for
\* the record, the payload holds a non-empty value under the unique field and
\* every search sent was for that value; a payload without one ends the record as skipped, with no
\* search, create or update.
C25_UniqueValueCarried ==
    \A w \in Procs :
        LET field == Cfg(w).unique_field
            upsert == {i \in DOMAIN calls[w] :
                          calls[w][i].call \in {"search", "create", "update"}}
        IN  /\ (InItem(w) /\ upsert # {}) =>
                  /\ DictHas(properties[w], field)
                  /\ Truthy(properties[w].val[field])
                  /\ \A i \in upsert :
                        calls[w][i].call = "search" =>
                            Str(calls[w][i].arg) = properties[w].val[field]
            /\ (AfterReconcile(w) /\ UniqueMissing(properties[w], field)) =>
                  /\ pc[w] = "returned"
                  /\ upsert = {}
                  /\ Last(outcomes[w]).msg = "skipped"

\* C25 witness: the run skipped customer 4, whose email a metafield replaced
\* by the empty string, upserted another record, and has just skipped order
\* 5, whose dealname the allowed_values step removed.
C25_SkippedWithoutUniqueValue ==
    /\ pc[1] = "returned"
    /\ ItemId(Item(1)) = 5
    /\ ~DictHas(properties[1], "dealname")
    /\ \E i \in DOMAIN outcomes[1] :
          outcomes[1][i] = [obj |-> "customer", id |-> 4, msg |-> "skipped"]
    /\ \E i \in DOMAIN outcomes[1] : outcomes[1][i].msg \in {"created", "updated"}
    /\ Last(outcomes[1]) = [obj |-> "order", id |-> 5, msg |-> "skipped"]

\* C28: a property creation call is issued only for a name that is neither
\* in the list fetched for the record nor in the destination, so that a name
\* whose creation succeeded is never sent again.
C28_CreationOnlyForAbsentNames ==
    [][\A w \in Procs :
          (calls'[w] # calls[w] /\ Last(calls'[w]).call = "create_property") =>
              /\ Last(calls'[w]).arg \notin current_properties[w]
              /\ Last(calls'[w]).arg \notin hsProps[HsObj(w)]
              /\ \A i \in DOMAIN calls[w] :
                    calls[w][i].call = "create_property" =>
                        calls[w][i].arg # Last(calls'[w]).arg
      ]_vars

\* C28 witness: customer 2 carries the metafield vip, the list fetched for it
\* holds vip since the creation issued for customer 1, and no creation call
\* was issued for customer 2.
C28_SecondRecordFindsProperty ==
    /\ pc[1] = "returned"
    /\ ItemId(Item(1)) = 2
    /\ DictHas(properties[1], "vip")
    /\ "vip" \in current_properties[1]
    /\ ~Issued(1, "create_property")

\* C29: a run that has ended, by returning or by an exception other than a
\* network call failing to return, has handed every record of every object
\* type to send_to_hubspot.
C29_EndsHavingVisitedAll ==
    \A w \in Procs :
        (pc[w] \in {"done", "raised"} /\ exc[w].type # "TransportError") =>
            /\ oi[w] = Len(ObjectTypes)
            /\ data[w] = shopify.records[ObjType(w)]
            /\ ri[w] = Len(data[w])

\* C26: in every call of create_or_update_hubspot_contact the email argument,
\* which the search filters by, is the value the payload holds under email.
C26_LookupEmailIsPayloadEmail ==
    \A u \in DOMAIN upserts :
        /\ DictHas(upserts[u].props, "email")
        /\ upserts[u].props.val["email"] = upserts[u].email

\* C27: run over the same records from the same destination, with every
\* call answered in order, the create-first and the search-first upsert
\* leave the same destination records and report the same state per record.
C27_UpsertsEquivalent ==
    (call.fn = "upserts" /\ ret.done) =>
        ret.value.create_first = ret.value.search_first

=============================================================================
